---------------------------- MODULE Spec2Model ----------------------------
(* A model of rop_compiler/ast.py: the operand classes (Const, Register,  *)
(* Memory), the binary operation classes, concrete evaluation (compute),   *)
(* formula translation (to_z3), the aliasing heuristic (is_same_memory)    *)
(* and the allocation of Register handles.                                 *)
EXTENDS Integers, Sequences, FiniteSets, TLC

VARIABLES
  MAX_HANDLE,       \* Register.MAX_HANDLE, the class attribute
  registers,        \* the Register objects constructed so far, in order
  supplied,         \* history: the handle argument of each construction
  translated,       \* per constructed Register: <<>> or <<its to_z3()>>
  pc,               \* per thread: its position in Register.__init__/new_handle
  handle,           \* per thread: the local `handle` of new_handle
  loaded,           \* per thread: the value `cls.MAX_HANDLE += 1` has loaded
  pending,          \* per thread: the name of the Register being constructed
  memA, memB,       \* the two Memory operands handed to is_same_memory
  same,             \* <<>> or <<the result of memA.is_same_memory(memB)>>
  tree,             \* the expression tree handed to compute / to_z3
  input_registers,  \* compute's register map (a partial map name -> int)
  memory,           \* compute's memory map (a partial map address -> int)
  result,           \* <<>> or <<the outcome of tree.compute(...)>>
  formula           \* <<>> or <<the outcome of tree.to_z3()>>

vars == <<MAX_HANDLE, registers, supplied, translated, pc, handle, loaded,
          pending, memA, memB, same, tree, input_registers, memory, result,
          formula>>

-----------------------------------------------------------------------------
(* Bounds of the model.                                                    *)

MaxRegisters == 3        \* Register constructions in a sequential run
MaxExplicitHandle == 2   \* explicit handles are drawn from 0..MaxExplicitHandle
MaxValue == 2            \* integers are drawn from -MaxValue..MaxValue
NumThreads == 2          \* threads constructing Registers concurrently
MaxAllocations == 4      \* Register constructions in a concurrent run

Values == (0 - MaxValue)..MaxValue
Names == {"rax", "rbx"}
Threads == 1..NumThreads

\* Python's None, as an object whose type is NoneType.
None == [type |-> "NoneType"]

-----------------------------------------------------------------------------
(* The classes and their constructors.                                     *)

\* The subclasses of BinaryOperand.
BinaryClasses ==
  {"Add", "Sub", "Mult", "BitwiseAnd", "BitwiseOr", "BitwiseXor", "Equal", "Store"}

\* The subclasses of BinaryOperand that define the attribute `operand`.
ClassesWithOperand == BinaryClasses \ {"Store"}

issubclass_BinaryOperand(cls) == cls \in BinaryClasses

Const(value) == [type |-> "Const", value |-> value]

convert_name(name) == [name |-> name, size |-> 8, start |-> 0 - 1]

\* Register.new_handle run without interruption: the handle returned and the
\* class attribute afterwards.
new_handle_no_increment(max_handle) ==
  [handle |-> max_handle, MAX_HANDLE |-> max_handle]

new_handle(max_handle) ==
  [handle |-> max_handle, MAX_HANDLE |-> max_handle + 1]

\* A Register object with its handle set.
RegisterObject(name, h) ==
  LET c == convert_name(name)
  IN  [type |-> "Register", name |-> c.name, size |-> c.size,
       start |-> c.start, handle |-> h]

\* Register.__init__(name, handle): handle_arg is <<>> for None and <<h>> for
\* an explicit handle.  Yields the object and the class attribute afterwards.
Register_init(name, handle_arg, max_handle) ==
  IF handle_arg = <<>>
    THEN LET n == new_handle(max_handle)
         IN  [self |-> RegisterObject(name, n.handle), MAX_HANDLE |-> n.MAX_HANDLE]
    ELSE [self |-> RegisterObject(name, handle_arg[1]), MAX_HANDLE |-> max_handle]

Memory(address) == [type |-> "Memory", address |-> address, size |-> 8]

BinaryOperand(cls, left, right) == [type |-> cls, operands |-> <<left, right>>]

Register_str(self) == self.name

\* z3.BitVec(name, bits): z3 identifies a bit-vector constant by its name and
\* its sort, so two calls with equal arguments denote the same variable.
BitVec(name, bits) == [kind |-> "BitVec", name |-> name, bits |-> bits]

Register_to_z3(self) == BitVec(Register_str(self), self.size * 8)

-----------------------------------------------------------------------------
(* Python's integers: unbounded, with & | ^ acting on the infinite two's   *)
(* complement representation.                                              *)

RECURSIVE int_and(_, _)
int_and(x, y) ==
  IF x = 0 \/ y = 0 THEN 0
  ELSE IF x = 0 - 1 THEN y
  ELSE IF y = 0 - 1 THEN x
  ELSE (x % 2) * (y % 2) + 2 * int_and(x \div 2, y \div 2)

RECURSIVE int_or(_, _)
int_or(x, y) ==
  IF x = 0 THEN y
  ELSE IF y = 0 THEN x
  ELSE IF x = 0 - 1 \/ y = 0 - 1 THEN 0 - 1
  ELSE (IF x % 2 = 1 \/ y % 2 = 1 THEN 1 ELSE 0) + 2 * int_or(x \div 2, y \div 2)

RECURSIVE int_xor(_, _)
int_xor(x, y) ==
  IF x = 0 THEN y
  ELSE IF y = 0 THEN x
  ELSE IF x = 0 - 1 /\ y = 0 - 1 THEN 0
  ELSE (((x % 2) + (y % 2)) % 2) + 2 * int_xor(x \div 2, y \div 2)

\* Python's bool is a subclass of int: True == 1 and False == 0 in arithmetic,
\* in comparisons and as a dict key, so the result of == is kept as 1 or 0.
bool(b) == IF b THEN 1 ELSE 0

\* The `operand` lambdas with the operands of Sub exchanged.
operand_swapped(cls, x, y) ==
  CASE cls = "Add" -> x + y
    [] cls = "Sub" -> y - x
    [] cls = "Mult" -> x * y
    [] cls = "BitwiseAnd" -> int_and(x, y)
    [] cls = "BitwiseOr" -> int_or(x, y)
    [] cls = "BitwiseXor" -> int_xor(x, y)
    [] cls = "Equal" -> bool(x = y)

\* The class attribute `operand` of each operation class, applied to two ints.
operand(cls, x, y) ==
  CASE cls = "Add" -> x + y
    [] cls = "Sub" -> x - y
    [] cls = "Mult" -> x * y
    [] cls = "BitwiseAnd" -> int_and(x, y)
    [] cls = "BitwiseOr" -> int_or(x, y)
    [] cls = "BitwiseXor" -> int_xor(x, y)
    [] cls = "Equal" -> bool(x = y)

-----------------------------------------------------------------------------
(* Concrete evaluation.  A call either returns a value or raises; the      *)
(* outcome records which, and for a KeyError the key that was missing      *)
(* (a register name, a str, or an address, an int).                        *)

NoKey == [kind |-> "none", name |-> "", address |-> 0]

Returned(v) == [exc |-> "none", value |-> v, key |-> NoKey]

\* dict.__getitem__ on a missing str key.
KeyErrorName(n) ==
  [exc |-> "KeyError", value |-> 0, key |-> [kind |-> "str", name |-> n, address |-> 0]]

\* dict.__getitem__ on a missing int key.
KeyErrorAddress(a) ==
  [exc |-> "KeyError", value |-> 0, key |-> [kind |-> "int", name |-> "", address |-> a]]

\* The attribute lookup self.operand on a class that does not define it.
AttributeError == [exc |-> "AttributeError", value |-> 0, key |-> NoKey]

Const_compute(self, regs, mem) == Returned(self.value)

\* Register.compute with a default of 0 for a missing register.
Register_compute_default(self, regs, mem) ==
  IF self.name \in DOMAIN regs THEN Returned(regs[self.name]) ELSE Returned(0)

Register_compute(self, regs, mem) ==
  IF self.name \in DOMAIN regs
    THEN Returned(regs[self.name])
    ELSE KeyErrorName(self.name)

\* memory[address], the address already evaluated.
Memory_lookup(mem, address) ==
  IF address \in DOMAIN mem THEN Returned(mem[address]) ELSE KeyErrorAddress(address)

RECURSIVE compute(_, _, _)
compute(self, regs, mem) ==
  CASE self.type = "Const" -> Const_compute(self, regs, mem)
    [] self.type = "Register" -> Register_compute(self, regs, mem)
    [] self.type = "Memory" ->
         LET address == compute(self.address, regs, mem)
         IN  IF address.exc # "none" THEN address
             ELSE Memory_lookup(mem, address.value)
    [] issubclass_BinaryOperand(self.type) ->
         \* self.operand is looked up before the arguments are evaluated
         IF self.type \notin ClassesWithOperand THEN AttributeError
         ELSE LET left == compute(self.operands[1], regs, mem)
              IN  IF left.exc # "none" THEN left
                  ELSE LET right == compute(self.operands[2], regs, mem)
                       IN  IF right.exc # "none" THEN right
                           ELSE Returned(operand(self.type, left.value, right.value))

-----------------------------------------------------------------------------
(* Formula translation.  A z3 expression is a term; a Python int stays an  *)
(* int.  The sort checks of the z3 library are not part of this file and   *)
(* are not modelled: the operators build the term.                         *)

NoTerm == [kind |-> "none"]

Translated(t) == [exc |-> "none", term |-> t]

TranslationAttributeError == [exc |-> "AttributeError", term |-> NoTerm]

IntTerm(v) == [kind |-> "int", value |-> v]

Const_to_z3(self) == Translated(IntTerm(self.value))

\* z3.Array("Memory", BitVecSort(64), BitVecSort(64))[index]
MemoryArraySelect(index) ==
  [kind |-> "Select", array |-> "Memory", domain |-> 64, range |-> 64, index |-> index]

\* The `operand` lambda applied to translated operands: Python arithmetic on
\* two ints, the overloaded z3 operator otherwise.
operand_z3(cls, x, y) ==
  IF x.kind = "int" /\ y.kind = "int"
    THEN IntTerm(operand(cls, x.value, y.value))
    ELSE [kind |-> cls, args |-> <<x, y>>]

RECURSIVE to_z3(_)
to_z3(self) ==
  CASE self.type = "Const" -> Const_to_z3(self)
    [] self.type = "Register" -> Translated(Register_to_z3(self))
    [] self.type = "Memory" ->
         LET address == to_z3(self.address)
         IN  IF address.exc # "none" THEN address
             ELSE Translated(MemoryArraySelect(address.term))
    [] issubclass_BinaryOperand(self.type) ->
         LET first == to_z3(self.operands[1])
         IN  IF first.exc # "none" THEN first
             ELSE IF self.type \notin ClassesWithOperand THEN TranslationAttributeError
             ELSE LET left == to_z3(self.operands[1])
                      right == to_z3(self.operands[2])
                  IN  IF left.exc # "none" THEN left
                      ELSE IF right.exc # "none" THEN right
                      ELSE Translated(operand_z3(self.type, left.term, right.term))

-----------------------------------------------------------------------------
(* The aliasing heuristic.                                                 *)

\* The two for loops of is_same_memory: after the loop, `reg` is the last
\* operand of type Register and `con` the last of type Const (None if none).
RECURSIVE ScanOperands(_, _, _)
ScanOperands(operands, i, acc) ==
  IF i > Len(operands) THEN acc
  ELSE LET op == operands[i]
       IN  ScanOperands(operands, i + 1,
             IF op.type = "Register" THEN [acc EXCEPT !.reg = op]
             ELSE IF op.type = "Const" THEN [acc EXCEPT !.con = op]
             ELSE acc)

\* is_same_memory with the second loop looking at address2.operands[0] only.
is_same_memory_first_operand(self, other) ==
  LET address1 == self.address
      address2 == other.address
  IN  IF address1.type # address2.type THEN FALSE
      ELSE IF (address1.type = "Const" /\ address1.value = address2.value)
              \/ (address1.type = "Register" /\ address1.name = address2.name)
        THEN TRUE
      ELSE IF ~issubclass_BinaryOperand(address1.type) THEN FALSE
      ELSE LET scan1 == ScanOperands(address1.operands, 1, [reg |-> None, con |-> None])
               scan2 == ScanOperands(SubSeq(address2.operands, 1, 1), 1,
                                     [reg |-> None, con |-> None])
           IN  IF None \in {scan1.reg, scan2.reg} THEN FALSE
               ELSE scan1.reg.name = scan2.reg.name

\* Memory.is_same_memory.  The loops assign con1 and con2; const1 and const2
\* keep the None they are initialised with.
is_same_memory(self, other) ==
  LET address1 == self.address
      address2 == other.address
  IN  IF address1.type # address2.type THEN FALSE
      ELSE IF (address1.type = "Const" /\ address1.value = address2.value)
              \/ (address1.type = "Register" /\ address1.name = address2.name)
        THEN TRUE
      ELSE IF ~issubclass_BinaryOperand(address1.type) THEN FALSE
      ELSE LET scan1 == ScanOperands(address1.operands, 1, [reg |-> None, con |-> None])
               scan2 == ScanOperands(address2.operands, 1, [reg |-> None, con |-> None])
               reg1 == scan1.reg
               con1 == scan1.con
               reg2 == scan2.reg
               con2 == scan2.con
               const1 == None
               const2 == None
           IN  IF None \in {reg1, reg2} \/ const1.type # const2.type THEN FALSE
               ELSE reg1.name = reg2.name
                    /\ (None \in {const1, const2} \/ const1.value = const2.value)

-----------------------------------------------------------------------------
(* The inputs the pure functions are applied to.                           *)

\* Register("rax") and Register("rbx"), constructed in this order with no
\* explicit handle.
rax == RegisterObject("rax", 0)
rbx == RegisterObject("rbx", 1)

Consts == {Const(v) : v \in Values}
Leaves == Consts \cup {rax, rbx}

\* Addresses of the Memory operands handed to is_same_memory.
AliasClasses == {"Add", "Sub", "Mult"}
AliasChildren == Leaves \cup {Memory(Const(0)), BinaryOperand("Add", rax, Const(0))}
AliasAddresses ==
  Leaves
  \cup {Memory(Const(0)), Memory(rax)}
  \cup {BinaryOperand(c, l, r) : c \in AliasClasses, l \in AliasChildren, r \in AliasChildren}
MemoryOperands == {Memory(a) : a \in AliasAddresses}

\* Trees handed to compute and to_z3.
MemoryLeaves == {Memory(Const(0)), Memory(Const(1)), Memory(rax), Memory(rbx)}
Operands == Leaves \cup MemoryLeaves
Trees ==
  Operands
  \cup {BinaryOperand(c, l, r) : c \in BinaryClasses, l \in Operands, r \in Leaves}
  \cup {BinaryOperand("Equal", BinaryOperand("Add", r, c), d) :
          r \in {rax, rbx}, c \in Consts, d \in Consts}
  \cup {Memory(BinaryOperand("Add", r, c)) : r \in {rax, rbx}, c \in Consts}
  \cup {Memory(Memory(Const(0)))}

\* Register maps: each name absent or bound to a value.
RegisterMaps == UNION {[S -> Values] : S \in SUBSET Names}

\* Memory maps: sparse, over the addresses 0 and 1.
MemoryMaps == UNION {[S -> {0, MaxValue}] : S \in SUBSET {0, 1}}

-----------------------------------------------------------------------------
(* The state of each part when it is not the part under study.             *)

HandlesInit ==
  /\ MAX_HANDLE = 0
  /\ registers = <<>>
  /\ supplied = <<>>
  /\ translated = <<>>

ThreadsInit ==
  /\ pc = [t \in Threads |-> "idle"]
  /\ handle = [t \in Threads |-> 0]
  /\ loaded = [t \in Threads |-> 0]
  /\ pending = [t \in Threads |-> ""]

AliasInit ==
  /\ memA = Memory(Const(0))
  /\ memB = Memory(Const(0))
  /\ same = <<>>

EvalInit ==
  /\ tree = Const(0)
  /\ input_registers = <<>>
  /\ memory = <<>>
  /\ result = <<>>
  /\ formula = <<>>

handleVars == <<MAX_HANDLE, registers, supplied, translated>>
threadVars == <<pc, handle, loaded, pending>>
aliasVars == <<memA, memB, same>>
evalVars == <<tree, input_registers, memory, result, formula>>

-----------------------------------------------------------------------------
(* Register construction and translation, single-threaded.                 *)

Init == HandlesInit /\ ThreadsInit /\ AliasInit /\ EvalInit

\* Register(name, handle)
NewRegister(name, handle_arg) ==
  /\ Len(registers) < MaxRegisters
  /\ LET r == Register_init(name, handle_arg, MAX_HANDLE)
     IN  /\ registers' = Append(registers, r.self)
         /\ MAX_HANDLE' = r.MAX_HANDLE
  /\ supplied' = Append(supplied, handle_arg)
  /\ translated' = Append(translated, <<>>)
  /\ UNCHANGED <<threadVars, aliasVars, evalVars>>

\* registers[i].to_z3()
TranslateRegister(i) ==
  /\ translated[i] = <<>>
  /\ translated' = [translated EXCEPT ![i] = <<Register_to_z3(registers[i])>>]
  /\ UNCHANGED <<MAX_HANDLE, registers, supplied, threadVars, aliasVars, evalVars>>

Next ==
  \/ \E name \in Names : NewRegister(name, <<>>)
  \/ \E name \in Names, h \in 0..MaxExplicitHandle : NewRegister(name, <<h>>)
  \/ \E i \in 1..Len(registers) : TranslateRegister(i)

Spec == Init /\ [][Next]_vars

-----------------------------------------------------------------------------
(* Register construction with no explicit handle from several threads: the *)
(* interpreter may switch threads between any two bytecodes, so the read   *)
(* of line 33 and the load and the store of line 34 are separate steps.    *)

InFlight == Cardinality({t \in Threads : pc[t] # "idle"})

\* Register(name): __init__ up to the call of new_handle
BeginRegister(t, name) ==
  /\ pc[t] = "idle"
  /\ Len(registers) + InFlight < MaxAllocations
  /\ pending' = [pending EXCEPT ![t] = name]
  /\ pc' = [pc EXCEPT ![t] = "read"]
  /\ UNCHANGED <<handle, loaded, handleVars, aliasVars, evalVars>>

\* handle = cls.MAX_HANDLE
ReadHandle(t) ==
  /\ pc[t] = "read"
  /\ handle' = [handle EXCEPT ![t] = MAX_HANDLE]
  /\ pc' = [pc EXCEPT ![t] = "load"]
  /\ UNCHANGED <<loaded, pending, handleVars, aliasVars, evalVars>>

\* cls.MAX_HANDLE += 1, the load
LoadMaxHandle(t) ==
  /\ pc[t] = "load"
  /\ loaded' = [loaded EXCEPT ![t] = MAX_HANDLE]
  /\ pc' = [pc EXCEPT ![t] = "store"]
  /\ UNCHANGED <<handle, pending, handleVars, aliasVars, evalVars>>

\* cls.MAX_HANDLE += 1, the store
StoreMaxHandle(t) ==
  /\ pc[t] = "store"
  /\ MAX_HANDLE' = loaded[t] + 1
  /\ pc' = [pc EXCEPT ![t] = "return"]
  /\ UNCHANGED <<handle, loaded, pending, registers, supplied, translated,
                 aliasVars, evalVars>>

\* return handle; self.handle = the handle returned
FinishRegister(t) ==
  /\ pc[t] = "return"
  /\ registers' = Append(registers, RegisterObject(pending[t], handle[t]))
  /\ supplied' = Append(supplied, <<>>)
  /\ translated' = Append(translated, <<>>)
  /\ pc' = [pc EXCEPT ![t] = "idle"]
  /\ UNCHANGED <<MAX_HANDLE, handle, loaded, pending, aliasVars, evalVars>>

NextThreads ==
  \/ \E t \in Threads, name \in Names : BeginRegister(t, name)
  \/ \E t \in Threads : ReadHandle(t)
  \/ \E t \in Threads : LoadMaxHandle(t)
  \/ \E t \in Threads : StoreMaxHandle(t)
  \/ \E t \in Threads : FinishRegister(t)

SpecThreads == Init /\ [][NextThreads]_vars

-----------------------------------------------------------------------------
(* The aliasing heuristic applied to a pair of Memory operands.            *)

InitAlias ==
  /\ HandlesInit /\ ThreadsInit /\ EvalInit
  /\ memA \in MemoryOperands
  /\ memB \in MemoryOperands
  /\ same = <<>>

\* memA.is_same_memory(memB)
IsSameMemory ==
  /\ same = <<>>
  /\ same' = <<is_same_memory(memA, memB)>>
  /\ UNCHANGED <<memA, memB, handleVars, threadVars, evalVars>>

NextAlias == IsSameMemory

SpecAlias == InitAlias /\ [][NextAlias]_vars

-----------------------------------------------------------------------------
(* Concrete evaluation of a tree under a register map and a memory map.    *)

InitEval ==
  /\ HandlesInit /\ ThreadsInit /\ AliasInit
  /\ tree \in Trees
  /\ input_registers \in RegisterMaps
  /\ memory \in MemoryMaps
  /\ result = <<>>
  /\ formula = <<>>

\* tree.compute(input_registers, memory)
Compute ==
  /\ result = <<>>
  /\ result' = <<compute(tree, input_registers, memory)>>
  /\ UNCHANGED <<tree, input_registers, memory, formula, handleVars, threadVars,
                 aliasVars>>

NextEval == Compute

SpecEval == InitEval /\ [][NextEval]_vars

-----------------------------------------------------------------------------
(* Formula translation of a tree.                                          *)

InitTranslate ==
  /\ HandlesInit /\ ThreadsInit /\ AliasInit
  /\ tree \in Trees
  /\ input_registers = <<>>
  /\ memory = <<>>
  /\ result = <<>>
  /\ formula = <<>>

\* tree.to_z3()
ToZ3 ==
  /\ formula = <<>>
  /\ formula' = <<to_z3(tree)>>
  /\ UNCHANGED <<tree, input_registers, memory, result, handleVars, threadVars,
                 aliasVars>>

NextTranslate == ToZ3

SpecTranslate == InitTranslate /\ [][NextTranslate]_vars

-----------------------------------------------------------------------------
(* Vocabulary of the properties.                                           *)

Handle(i) == registers[i].handle
Fresh(i) == supplied[i] = <<>>

RECURSIVE Subtrees(_)
Subtrees(t) ==
  {t} \cup
  (CASE t.type = "Memory" -> Subtrees(t.address)
     [] issubclass_BinaryOperand(t.type) ->
          Subtrees(t.operands[1]) \cup Subtrees(t.operands[2])
     [] OTHER -> {})

StoreFree(t) == \A s \in Subtrees(t) : s.type # "Store"

\* The children of a binary operation that are of the given type.
ChildrenOfType(a, ty) == {i \in 1..Len(a.operands) : a.operands[i].type = ty}

\* A binary operation with exactly one Register child and at most one Const child.
RestrictedShape(a) ==
  /\ issubclass_BinaryOperand(a.type)
  /\ Cardinality(ChildrenOfType(a, "Register")) = 1
  /\ Cardinality(ChildrenOfType(a, "Const")) <= 1

HasConst(a) == ChildrenOfType(a, "Const") # {}
TheRegister(a) == a.operands[CHOOSE i \in ChildrenOfType(a, "Register") : TRUE]
TheConst(a) == a.operands[CHOOSE i \in ChildrenOfType(a, "Const") : TRUE]

\* A binary operation over a Register and a Const, in either order.
RegisterAndConst(a) ==
  /\ issubclass_BinaryOperand(a.type)
  /\ Cardinality(ChildrenOfType(a, "Register")) = 1
  /\ Cardinality(ChildrenOfType(a, "Const")) = 1

SupportedShape(a) == a.type \in {"Const", "Register"} \/ RegisterAndConst(a)

\* The three cases the heuristic recognises.
Recognised(a, b) ==
  \/ a.type = "Const" /\ b.type = "Const"
  \/ a.type = "Register" /\ b.type = "Register"
  \/ RestrictedShape(a) /\ RestrictedShape(b)

\* Every lookup the evaluation of t can make finds its key.
EveryLookupSucceeds(t, regs, mem) ==
  \A s \in Subtrees(t) :
    /\ s.type = "Register" => s.name \in DOMAIN regs
    /\ s.type = "Memory" =>
         LET a == compute(s.address, regs, mem)
         IN  a.exc = "none" /\ a.value \in DOMAIN mem

\* The lookup of node s fails, and r is the error it raises.
FailedLookup(s, regs, mem, r) ==
  \/ /\ s.type = "Register"
     /\ s.name \notin DOMAIN regs
     /\ r.exc = "KeyError" /\ r.key.kind = "str" /\ r.key.name = s.name
  \/ /\ s.type = "Memory"
     /\ LET a == compute(s.address, regs, mem)
        IN  /\ a.exc = "none"
            /\ a.value \notin DOMAIN mem
            /\ r.exc = "KeyError" /\ r.key.kind = "int" /\ r.key.address = a.value

\* Bit i of the two's complement representation of x.
Bit(x, i) == (x \div (2 ^ i)) % 2

\* Bits 0..SignBit determine every integer in -2^SignBit .. 2^SignBit - 1,
\* a range that holds -MaxValue..MaxValue.
SignBit == MaxValue + 1

\* res is the integer whose bits are f applied to the bits of x and y.
Bitwise(res, x, y, f(_, _)) ==
  /\ res >= 0 - (2 ^ SignBit)
  /\ res < 2 ^ SignBit
  /\ \A i \in 0..SignBit : Bit(res, i) = f(Bit(x, i), Bit(y, i))

BitAnd(a, b) == a * b
BitOr(a, b) == a + b - a * b
BitXor(a, b) == (a + b) % 2

\* res is the native result of the operation of class cls on x and y.
Native(cls, res, x, y) ==
  CASE cls = "Add" -> res = x + y
    [] cls = "Sub" -> res = x - y
    [] cls = "Mult" -> res = x * y
    [] cls = "BitwiseAnd" -> Bitwise(res, x, y, BitAnd)
    [] cls = "BitwiseOr" -> Bitwise(res, x, y, BitOr)
    [] cls = "BitwiseXor" -> Bitwise(res, x, y, BitXor)

ValueClasses == {"Add", "Sub", "Mult", "BitwiseAnd", "BitwiseOr", "BitwiseXor"}

-----------------------------------------------------------------------------
(* Properties of Register handles and of Register.to_z3 (Spec).            *)

\* C1: two Registers with the same name translate to the same solver
\* variable if and only if their handles are equal.
C1_SameVariableIffSameHandle ==
  \A i \in 1..Len(registers), j \in 1..Len(registers) :
    (translated[i] # <<>> /\ translated[j] # <<>>
       /\ registers[i].name = registers[j].name)
    => ((translated[i][1] = translated[j][1]) <=> (Handle(i) = Handle(j)))

\* C6, as claimed: a Register constructed with no explicit handle receives a
\* handle different from the handle of every Register constructed before it,
\* those constructed with an explicit handle included.
C6_FreshHandleDiffersFromAllEarlier ==
  \A j \in 1..Len(registers) : \A i \in 1..(j - 1) :
    Fresh(j) => Handle(i) # Handle(j)

\* C6, amended: a Register constructed with no explicit handle receives a
\* handle greater than that of every Register constructed before it with no
\* explicit handle, and different from that of every earlier Register whose
\* explicit handle aliases such a Register constructed before it.
C6_FreshHandlesIncrease ==
  \A j \in 1..Len(registers) : \A i \in 1..(j - 1) :
    Fresh(j) =>
      /\ Fresh(i) => Handle(i) < Handle(j)
      /\ (~Fresh(i) /\ \E k \in 1..(i - 1) : Fresh(k) /\ Handle(k) = Handle(i))
           => Handle(i) # Handle(j)

\* C6 witness: a fresh handle, an explicit handle aliasing it, and a second
\* fresh handle allocated after both.
C6_Witness ==
  /\ Len(registers) >= 3
  /\ Fresh(1) /\ ~Fresh(2) /\ Fresh(3)
  /\ Handle(2) = Handle(1)
  /\ Handle(3) > Handle(1)

-----------------------------------------------------------------------------
(* Handle allocation from several threads (SpecThreads).                   *)

\* C5: under every interleaving no two constructions receive the same
\* handle, and once n constructions have completed and none is in progress
\* the counter has advanced by exactly n.
C5_ConcurrentAllocationSafe ==
  /\ \A i \in 1..Len(registers), j \in 1..Len(registers) :
       i # j => Handle(i) # Handle(j)
  /\ (\A t \in Threads : pc[t] = "idle") => MAX_HANDLE = Len(registers)

-----------------------------------------------------------------------------
(* Properties of is_same_memory (SpecAlias).                               *)

\* C2: a true result is sound: the two addresses compute to the same value
\* under every register map and memory map on which both evaluate.
C2_SameMemoryIsSound ==
  same = <<TRUE>> =>
    \A regs \in RegisterMaps, mem \in MemoryMaps :
      LET a == compute(memA.address, regs, mem)
          b == compute(memB.address, regs, mem)
      IN  (a.exc = "none" /\ b.exc = "none") => a.value = b.value

\* C7: is_same_memory is reflexive on operands whose address is a Const or a
\* Register, and symmetric on operands whose addresses are a Const, a
\* Register or a binary operation over a Register and a Const.
C7_ReflexiveAndSymmetric ==
  same # <<>> =>
    /\ (memA = memB /\ memA.address.type \in {"Const", "Register"}) => same[1]
    /\ (SupportedShape(memA.address) /\ SupportedShape(memB.address))
         => same[1] = is_same_memory(memB, memA)

\* C7 witness: two different operands, each a binary operation over a
\* Register and a Const with the children in opposite orders, compared true.
C7_Witness ==
  /\ same = <<TRUE>>
  /\ memA # memB
  /\ RegisterAndConst(memA.address) /\ RegisterAndConst(memB.address)
  /\ memA.address.operands[1].type = "Register"
  /\ memB.address.operands[1].type = "Const"

\* C9: on two addresses of the restricted shape the result is false when the
\* register names differ, when both have a Const child and the values
\* differ, and when only one of them has a Const child.
C9_RestrictedShapeComparison ==
  (same # <<>> /\ RestrictedShape(memA.address) /\ RestrictedShape(memB.address)) =>
    LET a == memA.address
        b == memB.address
    IN  /\ TheRegister(a).name # TheRegister(b).name => same[1] = FALSE
        /\ (HasConst(a) /\ HasConst(b) /\ TheConst(a).value # TheConst(b).value)
             => same[1] = FALSE
        /\ HasConst(a) # HasConst(b) => same[1] = FALSE

\* C10: outside the three recognised cases the result is false.
C10_UnrecognisedIsFalse ==
  (same # <<>> /\ ~Recognised(memA.address, memB.address)) => same[1] = FALSE

-----------------------------------------------------------------------------
(* Properties of compute (SpecEval).                                       *)

\* The kind of error a failed register lookup raises.
RegisterLookupErrorKind == Register_compute(rax, <<>>, <<>>).exc

C8_NativeIntegerOperations ==
  result # <<>> =>
    /\ (/\ tree.type \in ValueClasses
        /\ tree.operands[1].type = "Register"
        /\ tree.operands[2].type = "Const"
        /\ tree.operands[1].name \in DOMAIN input_registers)
       => /\ result[1].exc = "none"
          /\ Native(tree.type, result[1].value,
                    input_registers[tree.operands[1].name], tree.operands[2].value)
    /\ tree.type = "Equal" =>
         LET x == compute(tree.operands[1], input_registers, memory)
             y == compute(tree.operands[2], input_registers, memory)
         IN  (x.exc = "none" /\ y.exc = "none")
               => /\ result[1].exc = "none"
                  /\ (result[1].value # 0) <=> (x.value = y.value)

\* C8 witness: a subtraction whose result is below every input value, and
\* so is kept as a negative integer rather than wrapped.
C8_Witness ==
  /\ result # <<>>
  /\ tree.type = "Sub"
  /\ tree.operands[1].type = "Register"
  /\ tree.operands[2].type = "Const"
  /\ result[1].exc = "none"
  /\ result[1].value < 0 - MaxValue

-----------------------------------------------------------------------------
(* Properties of to_z3 (SpecTranslate).                                    *)

\* C4: to_z3 on a tree over Const, Register, Memory and the eight operation
\* classes, Store included, returns a formula and never raises.
C4_TranslationTotal ==
  formula # <<>> => formula[1].exc = "none"

=============================================================================
